---- MODULE Spec2Model ----
(***************************************************************************)
(* Model of the hourly-statistics importer of the wnsm sensor platform     *)
(* (custom_components/wnsm/sensor.py): SmartmeterSensor.async_update,      *)
(* SmartmeterSensor._import_statistics, SmartmeterSensor.is_active and the *)
(* helpers of utils.py they call.                                          *)
(*                                                                         *)
(* Instants are ticks (fractions of a second) since the model's epoch, a   *)
(* midnight.  Decimal amounts (kWh) are fixed-point integers with          *)
(* DecimalScale units per kWh.  The timestamp text of a reading is the     *)
(* tuple of its hour, minute, second and sub-second fields, and            *)
(* parse_datetime computes the instant from them.  A JSON value is a       *)
(* tuple: <<>> for null or a missing key, <<x>> for x.                     *)
(***************************************************************************)
EXTENDS Integers, Sequences, FiniteSets, TLC

(* ------------------------------ bounds --------------------------------- *)
\* longest list of readings a window carries
MaxReadings == 2
\* the clock is observed up to this many days after the first observation
MaxDays == 1
\* number of invocations of async_update
MaxRuns == 2
\* longest list of readings of the fold specification
MaxFoldLen == 3

(* ------------------------- program constants --------------------------- *)
\* resolution of the clock: ticks in a second
TicksPerSecond == 2
SecondsPerMinute == 60
MinutesPerHour == 60
Second == TicksPerSecond
Minute == SecondsPerMinute * Second
Hour == MinutesPerHour * Minute
\* timedelta(hours=24) of the batch loop
WindowHours == 24
\* min_wait = timedelta(hours=24)
MinWaitHours == 24
\* timedelta(hours=48) of the start from scratch
ColdStartHours == 48
\* v['value'] / 1000.0
KWhDivisor == 1000
\* fixed-point units of one kWh in a Decimal
DecimalScale == 10000
\* length of the period of one statistics row, in hours ("end" = start + period)
PeriodHours == 1
\* get_last_statistics(hass, 1, ...): at most one entry is asked for
NumberOfStats == 1

Day == WindowHours * Hour
\* JSON null, a missing key, Python None
None == <<>>
Some(x) == <<x>>
\* "key in dictionary" for a dictionary written with all its keys
Has(d, k) == d[k] # None
NoInstant == -1

(* ------------------------------ utils.py ------------------------------- *)
\* utils.today() has no parameter: a call with an argument raises TypeError
TodayArity == 0
\* today(timezone.utc) as written in async_update: the call itself fails
TodayCall(nargs, t) ==
    IF nargs = TodayArity
    THEN [raised |-> "none", value |-> t - (t % Day)]
    ELSE [raised |-> "TypeError", value |-> NoInstant]

\* translate_dict: a picked attribute whose value is None is left out
TranslateDict(d, keys) == [k \in keys |-> d[k]]

(* --------------------------- time conversions -------------------------- *)
\* the timestamp text an instant is written as
FormatDatetime(t) ==
    <<t \div Hour, (t % Hour) \div Minute, (t % Minute) \div Second, t % Second>>
\* dt_util.parse_datetime on a timestamp text <<hour, minute, second, ticks>>
ParseDatetime(s) == s[1] * Hour + s[2] * Minute + s[3] * Second + s[4]
\* dt_util.utc_from_timestamp on an epoch number
UtcFromTimestamp(x) == x
\* datetime.minute
MinuteOf(t) == (t % Hour) \div Minute
\* datetime.replace(minute=0, second=0, microsecond=0)
TruncHour(t) == t - (t % Hour)
\* datetime.replace(microsecond=0)
TruncSecond(t) == t - (t % Second)

(* ------------------------------ the fold ------------------------------- *)
\* Decimal(v['value'] / 1000.0)
Usage(value) == (value * DecimalScale) \div KWhDivisor

\* StatisticData(start=ts, sum=sum_, state=usage)
StatisticData(ts, s, usage) == [start |-> ts, sum |-> s, state |-> usage]

\* ReadingStep recording the sum as it was before the reading was added
ReadingStep_StaleSum(acc, v) ==
    LET ts == ParseDatetime(v.timestamp) IN
    IF MinuteOf(ts) # 0
    THEN [acc EXCEPT !.returned = TRUE]
    ELSE IF ts < acc.last_ts
    THEN acc
    ELSE IF v.value = None
    THEN [acc EXCEPT !.last_ts = ts]
    ELSE LET usage == Usage(v.value[1]) IN
         [acc EXCEPT !.last_ts = ts,
                     !.sum = acc.sum + usage,
                     !.statistics =
                         Append(acc.statistics,
                                StatisticData(ts, acc.sum, usage))]

\* ReadingStep writing a zero-usage point for a reading without value
ReadingStep_ZeroForAbsent(acc, v) ==
    LET ts == ParseDatetime(v.timestamp) IN
    IF MinuteOf(ts) # 0
    THEN [acc EXCEPT !.returned = TRUE]
    ELSE IF ts < acc.last_ts
    THEN acc
    ELSE LET usage == IF v.value = None THEN 0 ELSE Usage(v.value[1]) IN
         [acc EXCEPT !.last_ts = ts,
                     !.sum = acc.sum + usage,
                     !.statistics =
                         Append(acc.statistics,
                                StatisticData(ts, acc.sum + usage, usage))]

\* ReadingStep ending the run at a reading that is out of order
ReadingStep_AbortOutOfOrder(acc, v) ==
    LET ts == ParseDatetime(v.timestamp) IN
    IF MinuteOf(ts) # 0
    THEN [acc EXCEPT !.returned = TRUE]
    ELSE IF ts < acc.last_ts
    THEN [acc EXCEPT !.returned = TRUE]
    ELSE IF v.value = None
    THEN [acc EXCEPT !.last_ts = ts]
    ELSE LET usage == Usage(v.value[1]) IN
         [acc EXCEPT !.last_ts = ts,
                     !.sum = acc.sum + usage,
                     !.statistics =
                         Append(acc.statistics,
                                StatisticData(ts, acc.sum + usage, usage))]

\* one pass of the body of "for v in verbrauch['values']" on the
\* accumulator acc = [last_ts, sum, statistics, returned]
ReadingStep(acc, v) ==
    LET ts == ParseDatetime(v.timestamp) IN
    IF MinuteOf(ts) # 0
    THEN [acc EXCEPT !.returned = TRUE]
    ELSE IF ts < acc.last_ts
    THEN acc
    ELSE IF v.value = None
    THEN [acc EXCEPT !.last_ts = ts]
    ELSE LET usage == Usage(v.value[1]) IN
         [acc EXCEPT !.last_ts = ts,
                     !.sum = acc.sum + usage,
                     !.statistics =
                         Append(acc.statistics,
                                StatisticData(ts, acc.sum + usage, usage))]

\* the whole "for v in verbrauch['values']" loop, from reading k on
RECURSIVE Accumulate(_, _, _)
Accumulate(values, k, acc) ==
    IF k > Len(values) \/ acc.returned
    THEN acc
    ELSE Accumulate(values, k + 1, ReadingStep(acc, values[k]))

\* classification of a fetched window, in the order the loop body tests it
Classify(verbrauch) ==
    IF ~ Has(verbrauch, "values") THEN "Malformed"
    ELSE IF verbrauch["optIn"] # Some(TRUE)
    THEN "Gated"
    ELSE IF /\ verbrauch["consumptionMinimum"] = Some(0)
            /\ verbrauch["consumptionMaximum"] = Some(0)
    THEN "Empty"
    ELSE "Usable"

\* WindowStep going on to the next window after one without readings container
WindowStep_ContinueOnMalformed(loc, verbrauch) ==
    LET last_ts == loc.start
        next == loc.start + Day
        class == Classify(verbrauch)
    IN  IF class \in {"Malformed", "Gated", "Empty"}
        THEN [start |-> next, sum |-> loc.sum, statistics |-> loc.statistics,
              returned |-> FALSE]
        ELSE LET acc == Accumulate(verbrauch["values"][1], 1,
                                   [last_ts |-> last_ts, sum |-> loc.sum,
                                    statistics |-> loc.statistics,
                                    returned |-> FALSE])
             IN  [start |-> next, sum |-> acc.sum,
                  statistics |-> acc.statistics, returned |-> acc.returned]

\* WindowStep advancing the start only after the checks of the window
WindowStep_LateAdvance(loc, verbrauch) ==
    LET last_ts == loc.start
        next == loc.start + Day
        class == Classify(verbrauch)
    IN  IF class = "Malformed"
        THEN [start |-> loc.start, sum |-> loc.sum,
              statistics |-> loc.statistics, returned |-> TRUE]
        ELSE IF class \in {"Gated", "Empty"}
        THEN [start |-> loc.start, sum |-> loc.sum,
              statistics |-> loc.statistics, returned |-> FALSE]
        ELSE LET acc == Accumulate(verbrauch["values"][1], 1,
                                   [last_ts |-> last_ts, sum |-> loc.sum,
                                    statistics |-> loc.statistics,
                                    returned |-> FALSE])
             IN  [start |-> next, sum |-> acc.sum,
                  statistics |-> acc.statistics, returned |-> acc.returned]

\* WindowStep asking for the same start again after a window without
\* consumption
WindowStep_StallOnEmpty(loc, verbrauch) ==
    LET last_ts == loc.start
        next == loc.start + Day
        class == Classify(verbrauch)
    IN  IF class = "Malformed"
        THEN [start |-> next, sum |-> loc.sum, statistics |-> loc.statistics,
              returned |-> TRUE]
        ELSE IF class = "Gated"
        THEN [start |-> next, sum |-> loc.sum, statistics |-> loc.statistics,
              returned |-> FALSE]
        ELSE IF class = "Empty"
        THEN [start |-> loc.start, sum |-> loc.sum,
              statistics |-> loc.statistics, returned |-> FALSE]
        ELSE LET acc == Accumulate(verbrauch["values"][1], 1,
                                   [last_ts |-> last_ts, sum |-> loc.sum,
                                    statistics |-> loc.statistics,
                                    returned |-> FALSE])
             IN  [start |-> next, sum |-> acc.sum,
                  statistics |-> acc.statistics, returned |-> acc.returned]

\* WindowStep writing a point of no usage for a window it passes over
WindowStep_ZeroFill(loc, verbrauch) ==
    LET last_ts == loc.start
        next == loc.start + Day
        class == Classify(verbrauch)
    IN  IF class = "Malformed"
        THEN [start |-> next, sum |-> loc.sum, statistics |-> loc.statistics,
              returned |-> TRUE]
        ELSE IF class \in {"Gated", "Empty"}
        THEN [start |-> next, sum |-> loc.sum,
              statistics |-> Append(loc.statistics,
                                    StatisticData(loc.start, loc.sum, 0)),
              returned |-> FALSE]
        ELSE LET acc == Accumulate(verbrauch["values"][1], 1,
                                   [last_ts |-> last_ts, sum |-> loc.sum,
                                    statistics |-> loc.statistics,
                                    returned |-> FALSE])
             IN  [start |-> next, sum |-> acc.sum,
                  statistics |-> acc.statistics, returned |-> acc.returned]

\* one pass of the body of "while start < now" on a fetched window:
\* loc = [start, sum, statistics]; the result says whether the body returned
WindowStep(loc, verbrauch) ==
    LET last_ts == loc.start
        next == loc.start + Day
        class == Classify(verbrauch)
    IN  IF class = "Malformed"
        THEN [start |-> next, sum |-> loc.sum, statistics |-> loc.statistics,
              returned |-> TRUE]
        ELSE IF class \in {"Gated", "Empty"}
        THEN [start |-> next, sum |-> loc.sum, statistics |-> loc.statistics,
              returned |-> FALSE]
        ELSE LET acc == Accumulate(verbrauch["values"][1], 1,
                                   [last_ts |-> last_ts, sum |-> loc.sum,
                                    statistics |-> loc.statistics,
                                    returned |-> FALSE])
             IN  [start |-> next, sum |-> acc.sum,
                  statistics |-> acc.statistics, returned |-> acc.returned]

\* is_active asking for both fields
is_active_Both(zp) ==
    /\ (~ Has(zp, "active") \/ zp["active"][1])
    /\ (~ Has(zp, "smartMeterReady") \/ zp["smartMeterReady"][1])

\* is_active on the translated /zaehlpunkt response
is_active(zp) ==
    \/ (~ Has(zp, "active") \/ zp["active"][1])
    \/ (~ Has(zp, "smartMeterReady") \/ zp["smartMeterReady"][1])

(* ------------------------- external collaborators ---------------------- *)
SeqsUpTo(S, n) == UNION {[1..k -> S] : k \in 0..n}

\* the instants a window requested at s may carry: the requested start,
\* one hour on (aligned, with seconds, with minutes) and the start of the
\* next window
ReadingTimes(s) ==
    {s, s + Hour, s + Hour + 30 * Second, s + Hour + 7 * Minute, s + Day}
\* raw values (Wh) of a reading; None is a value the API does not have yet
ReadingValues == {None, Some(500)}
Readings(s) ==
    [timestamp : {FormatDatetime(t) : t \in ReadingTimes(s)},
     value : ReadingValues]
    \cup {[timestamp |-> FormatDatetime(s + Hour), value |-> Some(-500)]}

\* the readings of a source that is in order: at the requested start and an
\* hour on, with or without value, or with minutes in the timestamp
PlainReadings(s) ==
    [timestamp : {FormatDatetime(t) : t \in {s, s + Hour, s + Hour + 7 * Minute}},
     value : {None, Some(500)}]

\* what smartmeter.verbrauch answers with readings out of R: an error, a
\* window without readings container, a window with granular data, and
\* windows without opt-in or without consumption
VerbrauchResponsesOf(R) ==
    [Exception : {Some("error")}, values : {None}, optIn : {None},
     consumptionMinimum : {None}, consumptionMaximum : {None}]
    \cup [Exception : {None}, values : {None},
          optIn : {Some(TRUE), Some(FALSE)},
          consumptionMinimum : {Some(0)}, consumptionMaximum : {Some(500)}]
    \cup [Exception : {None},
          values : {Some(r) : r \in SeqsUpTo(R, MaxReadings)},
          optIn : {Some(TRUE)},
          consumptionMinimum : {Some(0)}, consumptionMaximum : {Some(500)}]
    \cup [Exception : {None},
          values : {Some(r) : r \in SeqsUpTo(R, MaxReadings - 1)},
          optIn : {None, Some(FALSE)},
          consumptionMinimum : {Some(0)}, consumptionMaximum : {Some(500)}]
    \cup [Exception : {None},
          values : {Some(r) : r \in SeqsUpTo(R, MaxReadings - 1)},
          optIn : {Some(TRUE)},
          consumptionMinimum : {Some(0)}, consumptionMaximum : {Some(0)}]
\* what smartmeter.verbrauch answers for a window requested at s
VerbrauchResponses(s) == VerbrauchResponsesOf(Readings(s))
\* the same of a source that is in order
PlainResponses(s) == VerbrauchResponsesOf(PlainReadings(s))
VerbrauchKeys == {"values", "optIn", "consumptionMinimum", "consumptionMaximum"}

\* what smartmeter.zaehlpunkte answers, reduced to the entry of this meter
ZaehlpunktResponses ==
    [kind : {"Exception", "empty", "notfound"},
     active : {None}, smartMeterReady : {None}]
    \cup [kind : {"found"},
          active : {None, Some(TRUE), Some(FALSE)},
          smartMeterReady : {None, Some(TRUE), Some(FALSE)}]
ZaehlpunktKeys == {"active", "smartMeterReady"}

\* how smartmeter.login ends
LoginOutcomes == {"ok", "RuntimeError"}

\* the representations the "end" field of a statistics row has had
EndKinds == {"float", "str", "datetime", "other"}
EndAs(kind, t) ==
    CASE kind = "float" -> [kind |-> "float", val |-> <<t>>]
      [] kind = "str" -> [kind |-> "str", val |-> FormatDatetime(t)]
      [] kind = "datetime" -> [kind |-> "datetime", val |-> <<t>>]
      [] OTHER -> [kind |-> "other", val |-> None]

\* index of the most recent point of the store: the greatest start, and
\* among equal starts the one written last
RECURSIVE LastIndex(_, _, _)
LastIndex(points, k, best) ==
    IF k > Len(points) THEN best
    ELSE LastIndex(points, k + 1,
                   IF best = 0 \/ points[k].start >= points[best].start
                   THEN k ELSE best)

StatRow(p, kind) ==
    [sum |-> p.sum, end |-> EndAs(kind, p.start + PeriodHours * Hour)]

\* what get_last_statistics answers: no entry of this sensor, or its most
\* recent row; a store that does not honour the asked number answers two,
\* and one that does not honour the asked sensor answers a second entry
LastStatisticsResponses(points) ==
    IF Len(points) = 0
    THEN {[ids |-> 0, rows |-> <<>>], [ids |-> 1, rows |-> <<>>]}
    ELSE LET last == points[LastIndex(points, 1, 0)] IN
         {[ids |-> 1, rows |-> <<StatRow(last, kind)>>] : kind \in EndKinds}
         \cup {[ids |-> 2, rows |-> <<StatRow(last, "float")>>]}
         \cup (IF Len(points) > NumberOfStats
               THEN {[ids |-> 1,
                      rows |-> <<StatRow(last, "float"),
                                 StatRow(points[1], "float")>>]}
               ELSE {})

\* lines 330-335: the coercion of the "end" field to a datetime
CoerceEnd(end) ==
    LET a == IF end.kind \in {"int", "float"}
             THEN [kind |-> "datetime", val |-> <<UtcFromTimestamp(end.val[1])>>]
             ELSE end
        b == IF a.kind = "str"
             THEN [kind |-> "datetime", val |-> <<ParseDatetime(a.val)>>]
             ELSE a
    IN  b

(* ------------------------------- state --------------------------------- *)
Invocations == {1, 2}

VARIABLES
    store,      \* the statistics of the sensor, in the order they were imported
    now,        \* the clock
    available,  \* self._available
    attrs,      \* self._attr_extra_state_attributes: 0 as constructed, else
                \* the invocation whose /zaehlpunkt answer it holds
    updatets,   \* self._updatets (the clock reading it was formatted from)
    started,    \* invocations of async_update so far
    run,        \* per invocation: position and locals of async_update
    fold,       \* the fold specification: a list of readings being folded
    meter       \* the meter specification: entries of the meter being judged

vars == <<store, now, available, attrs, updatets, started, run, fold, meter>>

InitNow == (PeriodHours + MinWaitHours) * Hour
ClockInstants ==
    {InitNow + d * Day + e : d \in 0..MaxDays, e \in {0, 1, Second}}

\* the store before the first invocation: empty, or one earlier point
InitStores ==
    {<<>>, <<StatisticData(0, 2 * DecimalScale, DecimalScale \div 2)>>}

IdleRun ==
    [pc |-> "idle", outcome |-> "none", shape |-> "-", gateNow |-> NoInstant,
     ckEnd |-> NoInstant, aware |-> TRUE, start |-> NoInstant, sum |-> 0,
     carried |-> 0, until |-> NoInstant, statistics |-> <<>>,
     fetched |-> <<>>, classes |-> <<>>, held |-> 0, minuteSeen |-> FALSE,
     contacted |-> FALSE, lookedUp |-> FALSE, commits |-> 0, base |-> 0,
     attrs0 |-> 0, updatets0 |-> NoInstant, active |-> TRUE,
     overlapped |-> FALSE, answer |-> <<0, 0>>]

NoFold == [values |-> <<>>, pos |-> 0, sum0 |-> 0, acc |-> [last_ts |-> 0, sum |-> 0,
           statistics |-> <<>>, returned |-> FALSE]]

NoMeter == [zps |-> <<>>, pos |-> 0, judged |-> <<>>]

Init ==
    /\ store \in InitStores
    /\ now = InitNow
    /\ available = TRUE
    /\ attrs = 0
    /\ updatets = NoInstant
    /\ started = 0
    /\ run = [i \in Invocations |-> IdleRun]
    /\ fold = NoFold
    /\ meter = NoMeter

(* ------------------------------ actions -------------------------------- *)
SetRun(i, r) == run' = [run EXCEPT ![i] = r]

\* the clock moves on between invocations
Advance ==
    /\ \A i \in Invocations : run[i].pc = "idle"
    /\ \E t \in ClockInstants : t > now /\ now' = t
    /\ UNCHANGED <<store, available, attrs, updatets, started, run, fold, meter>>

\* ResumeDecision going on when the last point is exactly min_wait old
ResumeDecision_StrictGate(resp, t) ==
    IF resp.ids = 0 \/ Len(resp.rows) = 0
    THEN LET td == TodayCall(1, t) IN
         IF td.raised # "none"
         THEN [shape |-> "none", outcome |-> td.raised, start |-> NoInstant,
               sum |-> 0, aware |-> FALSE]
         ELSE [shape |-> "none", outcome |-> "proceed",
               start |-> td.value - ColdStartHours * Hour, sum |-> 0,
               aware |-> FALSE]
    ELSE IF resp.ids = 1 /\ Len(resp.rows) = 1
    THEN LET end == CoerceEnd(resp.rows[1].end)
             sum == resp.rows[1].sum
         IN  IF end.kind # "datetime"
             THEN [shape |-> "one", outcome |-> "badtype", start |-> NoInstant,
                   sum |-> sum, aware |-> TRUE]
             ELSE IF TruncSecond(t) - TruncSecond(end.val[1])
                     < MinWaitHours * Hour
             THEN [shape |-> "one", outcome |-> "gated", start |-> end.val[1],
                   sum |-> sum, aware |-> TRUE]
             ELSE [shape |-> "one", outcome |-> "proceed",
                   start |-> end.val[1], sum |-> sum, aware |-> TRUE]
    ELSE [shape |-> "other", outcome |-> "badshape", start |-> NoInstant,
          sum |-> 0, aware |-> TRUE]

\* ResumeDecision resuming from the first row of an answer of any shape
ResumeDecision_FirstRow(resp, t) ==
    IF resp.ids = 0 \/ Len(resp.rows) = 0
    THEN LET td == TodayCall(1, t) IN
         IF td.raised # "none"
         THEN [shape |-> "none", outcome |-> td.raised, start |-> NoInstant,
               sum |-> 0, aware |-> FALSE]
         ELSE [shape |-> "none", outcome |-> "proceed",
               start |-> td.value - ColdStartHours * Hour, sum |-> 0,
               aware |-> FALSE]
    ELSE LET end == CoerceEnd(resp.rows[1].end)
             sum == resp.rows[1].sum
             shape == IF resp.ids = 1 /\ Len(resp.rows) = 1
                      THEN "one" ELSE "other"
         IN  IF end.kind # "datetime"
             THEN [shape |-> shape, outcome |-> "badtype", start |-> NoInstant,
                   sum |-> sum, aware |-> TRUE]
             ELSE IF TruncSecond(t) - TruncSecond(end.val[1])
                     <= MinWaitHours * Hour
             THEN [shape |-> shape, outcome |-> "gated", start |-> end.val[1],
                   sum |-> sum, aware |-> TRUE]
             ELSE [shape |-> shape, outcome |-> "proceed",
                   start |-> end.val[1], sum |-> sum, aware |-> TRUE]

\* lines 316-355 on the answer of get_last_statistics: the decision of
\* where, and whether, to resume
ResumeDecision(resp, t) ==
    IF resp.ids = 0 \/ Len(resp.rows) = 0
    THEN LET td == TodayCall(1, t) IN
         IF td.raised # "none"
         THEN [shape |-> "none", outcome |-> td.raised, start |-> NoInstant,
               sum |-> 0, aware |-> FALSE]
         ELSE [shape |-> "none", outcome |-> "proceed",
               start |-> td.value - ColdStartHours * Hour, sum |-> 0,
               aware |-> FALSE]
    ELSE IF resp.ids = 1 /\ Len(resp.rows) = 1
    THEN LET end == CoerceEnd(resp.rows[1].end)
             sum == resp.rows[1].sum
         IN  IF end.kind # "datetime"
             THEN [shape |-> "one", outcome |-> "badtype", start |-> NoInstant,
                   sum |-> sum, aware |-> TRUE]
             ELSE IF TruncSecond(t) - TruncSecond(end.val[1])
                     <= MinWaitHours * Hour
             THEN [shape |-> "one", outcome |-> "gated", start |-> end.val[1],
                   sum |-> sum, aware |-> TRUE]
             ELSE [shape |-> "one", outcome |-> "proceed",
                   start |-> end.val[1], sum |-> sum, aware |-> TRUE]
    ELSE [shape |-> "other", outcome |-> "badshape", start |-> NoInstant,
          sum |-> 0, aware |-> TRUE]

\* async_update up to "try": availability is set, the last statistics are
\* read and the resume point is decided
Resume(i) ==
    /\ run[i].pc = "idle"
    /\ started < MaxRuns
    /\ started' = started + 1
    /\ available' = TRUE
    /\ \E resp \in LastStatisticsResponses(store) :
         LET d == ResumeDecision(resp, now) IN
         SetRun(i, [IdleRun EXCEPT
                      !.pc = IF d.outcome = "proceed" THEN "login" ELSE "idle",
                      !.outcome = d.outcome,
                      !.shape = d.shape,
                      !.gateNow = now,
                      !.ckEnd = d.start,
                      !.aware = d.aware,
                      !.start = d.start,
                      !.sum = d.sum,
                      !.carried = d.sum,
                      !.base = Len(store),
                      !.attrs0 = attrs,
                      !.updatets0 = updatets,
                      !.answer = <<resp.ids, Len(resp.rows)>>,
                      !.overlapped =
                          \E j \in Invocations \ {i} : run[j].pc # "idle"])
    /\ UNCHANGED <<store, now, attrs, updatets, fold, meter>>

\* the points of a list whose start no point of the store has
RECURSIVE Unknown(_, _)
Unknown(points, known) ==
    IF points = <<>> THEN <<>>
    ELSE IF \E k \in 1..Len(known) : known[k].start = Head(points).start
    THEN Unknown(Tail(points), known)
    ELSE <<Head(points)>> \o Unknown(Tail(points), known)

\* Imported passing over the points whose start the store already has
Imported_SkipKnown(i, r) ==
    /\ store' = store \o Unknown(r.statistics, store)
    /\ updatets' = now
    /\ SetRun(i, [r EXCEPT !.pc = "idle", !.outcome = "imported",
                           !.commits = r.commits + 1])
    /\ UNCHANGED available

\* end of _import_statistics without an early return, and the rest of the
\* try block: the one import of the collected statistics
Imported(i, r) ==
    /\ store' = store \o r.statistics
    /\ updatets' = now
    /\ SetRun(i, [r EXCEPT !.pc = "idle", !.outcome = "imported",
                           !.commits = r.commits + 1])
    /\ UNCHANGED available

\* an early return of _import_statistics: nothing is imported, and the try
\* block goes on to set the update time
Returned(i, r, why) ==
    /\ updatets' = now
    /\ SetRun(i, [r EXCEPT !.pc = "idle", !.outcome = why])
    /\ UNCHANGED <<store, available>>

\* except RuntimeError
Failed(i, r) ==
    /\ available' = FALSE
    /\ SetRun(i, [r EXCEPT !.pc = "idle", !.outcome = "RuntimeError"])
    /\ UNCHANGED <<store, updatets>>

\* smartmeter.login: it returns, or it fails with the error the try block
\* handles
Login(i) ==
    /\ run[i].pc = "login"
    /\ \E outcome \in LoginOutcomes :
         LET r == [run[i] EXCEPT !.contacted = TRUE] IN
         IF outcome = "ok"
         THEN /\ SetRun(i, [r EXCEPT !.pc = "zaehlpunkt"])
              /\ UNCHANGED <<store, available, updatets>>
         ELSE Failed(i, r)
    /\ UNCHANGED <<now, attrs, started, fold, meter>>

\* the entry of _import_statistics: the test of the start, its truncation
\* to the hour and the first test of "while start < now"
ImportStart(i, r) ==
    IF ~ r.aware
    THEN /\ SetRun(i, [r EXCEPT !.pc = "idle", !.outcome = "ValueError"])
         /\ UNCHANGED <<store, available, updatets>>
    ELSE LET b == [r EXCEPT !.start = TruncHour(r.start),
                            !.until = TruncHour(now),
                            !.statistics = <<>>]
         IN  IF b.start < b.until
             THEN /\ SetRun(i, [b EXCEPT !.pc = "import"])
                  /\ UNCHANGED <<store, available, updatets>>
             ELSE Imported(i, b)

\* GetZaehlpunkt importing whatever is_active says
GetZaehlpunkt_IgnoreInactive(i) ==
    /\ run[i].pc = "zaehlpunkt"
    /\ \E zps \in ZaehlpunktResponses :
         LET r == [run[i] EXCEPT !.lookedUp = TRUE] IN
         IF zps.kind # "found"
         THEN Failed(i, r) /\ UNCHANGED attrs
         ELSE LET zp == TranslateDict(zps, ZaehlpunktKeys) IN
              /\ attrs' = started
              /\ ImportStart(i, [r EXCEPT !.active = is_active(zp)])
    /\ UNCHANGED <<now, started, fold, meter>>

\* get_zaehlpunkt, is_active and the entry of _import_statistics
GetZaehlpunkt(i) ==
    /\ run[i].pc = "zaehlpunkt"
    /\ \E zps \in ZaehlpunktResponses :
         LET r == [run[i] EXCEPT !.lookedUp = TRUE] IN
         IF zps.kind # "found"
         THEN Failed(i, r) /\ UNCHANGED attrs
         ELSE LET zp == TranslateDict(zps, ZaehlpunktKeys) IN
              /\ attrs' = started
              /\ IF ~ is_active(zp)
                 THEN /\ available' = FALSE
                      /\ SetRun(i, [r EXCEPT !.pc = "idle",
                                             !.outcome = "inactive",
                                             !.active = FALSE])
                      /\ UNCHANGED <<store, updatets>>
                 ELSE ImportStart(i, r)
    /\ UNCHANGED <<now, started, fold, meter>>

\* observation: how many readings a fetched window holds
Held(verbrauch) ==
    IF Has(verbrauch, "values") THEN Len(verbrauch["values"][1]) ELSE 0
\* observation: a window with granular data holds a reading whose timestamp
\* has non-zero minutes
OddMinute(verbrauch) ==
    /\ Has(verbrauch, "values")
    /\ verbrauch["optIn"] = Some(TRUE)
    /\ ~ (verbrauch["consumptionMinimum"] = Some(0)
          /\ verbrauch["consumptionMaximum"] = Some(0))
    /\ \E k \in 1..Len(verbrauch["values"][1]) :
          verbrauch["values"][1][k].timestamp[2] # 0

\* FetchFrom importing the points of each window as soon as it is handled
FetchFrom_ImportEachWindow(i, responses) ==
    /\ run[i].pc = "import"
    /\ run[i].start < run[i].until
    /\ \E response \in responses :
         LET r == [run[i] EXCEPT !.fetched = Append(@, run[i].start)] IN
         IF Has(response, "Exception")
         THEN Failed(i, [r EXCEPT !.classes = Append(@, "Exception")])
         ELSE LET verbrauch == TranslateDict(response, VerbrauchKeys)
                  w == WindowStep([start |-> r.start, sum |-> r.sum,
                                   statistics |-> r.statistics], verbrauch)
                  class == Classify(verbrauch)
                  n == [r EXCEPT !.start = w.start, !.sum = w.sum,
                                 !.statistics = w.statistics,
                                 !.classes = Append(@, class),
                                 !.held = Held(verbrauch),
                                 !.minuteSeen = @ \/ OddMinute(verbrauch)]
              IN  IF w.returned
                  THEN Returned(i, n, IF class = "Malformed" THEN "novalues"
                                      ELSE "minute")
                  ELSE IF n.start < n.until
                  THEN /\ SetRun(i, [n EXCEPT !.statistics = <<>>])
                       /\ store' = store \o n.statistics
                       /\ UNCHANGED <<available, updatets>>
                  ELSE Imported(i, n)
    /\ UNCHANGED <<now, attrs, started, fold, meter>>

\* one pass of "while start < now": get_consumption and the handling of its
\* window, and, when the loop ends with it, the import; the window is one
\* of responses
FetchFrom(i, responses) ==
    /\ run[i].pc = "import"
    /\ run[i].start < run[i].until
    /\ \E response \in responses :
         LET r == [run[i] EXCEPT !.fetched = Append(@, run[i].start)] IN
         IF Has(response, "Exception")
         THEN Failed(i, [r EXCEPT !.classes = Append(@, "Exception")])
         ELSE LET verbrauch == TranslateDict(response, VerbrauchKeys)
                  w == WindowStep([start |-> r.start, sum |-> r.sum,
                                   statistics |-> r.statistics], verbrauch)
                  class == Classify(verbrauch)
                  n == [r EXCEPT !.start = w.start, !.sum = w.sum,
                                 !.statistics = w.statistics,
                                 !.classes = Append(@, class),
                                 !.held = Held(verbrauch),
                                 !.minuteSeen = @ \/ OddMinute(verbrauch)]
              IN  IF w.returned
                  THEN Returned(i, n, IF class = "Malformed" THEN "novalues"
                                      ELSE "minute")
                  ELSE IF n.start < n.until
                  THEN /\ SetRun(i, n)
                       /\ UNCHANGED <<store, available, updatets>>
                  ELSE Imported(i, n)
    /\ UNCHANGED <<now, attrs, started, fold, meter>>

Fetch(i) == FetchFrom(i, VerbrauchResponses(run[i].start))
FetchPlain(i) == FetchFrom(i, PlainResponses(run[i].start))
\* the same with windows that hold fewer readings than the longest
FetchShort(i) ==
    FetchFrom(i, {v \in PlainResponses(run[i].start) :
                     Held(TranslateDict(v, VerbrauchKeys)) < MaxReadings})

\* invocations follow one another: the caller starts none while one runs
Next ==
    \/ Advance
    \/ Resume(1)
    \/ Login(1)
    \/ GetZaehlpunkt(1)
    \/ Fetch(1)

Spec == Init /\ [][Next]_vars

\* one invocation, at a clock that gates it or lets it run over one window
\* or more, with a source that is in order
LongDays == MaxDays + 1
RunInstants ==
    {InitNow, InitNow + 1} \cup {InitNow + d * Day + Second : d \in 0..LongDays}
InitRun ==
    /\ store \in InitStores
    /\ now \in RunInstants
    /\ available = TRUE
    /\ attrs = 0
    /\ updatets = NoInstant
    /\ started = MaxRuns - 1
    /\ run = [i \in Invocations |-> IdleRun]
    /\ fold = NoFold
    /\ meter = NoMeter

NextRun ==
    \/ Resume(1)
    \/ Login(1)
    \/ GetZaehlpunkt(1)
    \/ FetchPlain(1)

SpecRun == InitRun /\ [][NextRun]_vars

\* two invocations of async_update for the one sensor, the second started
\* while the first is suspended in an await; the clock lets a run fetch one
\* window
ConcInstants == {InitNow + Second}
InitConc ==
    /\ store = <<StatisticData(0, 2 * DecimalScale, DecimalScale \div 2)>>
    /\ now \in ConcInstants
    /\ available = TRUE
    /\ attrs = 0
    /\ updatets = NoInstant
    /\ started = MaxRuns - 2
    /\ run = [i \in Invocations |-> IdleRun]
    /\ fold = NoFold
    /\ meter = NoMeter

NextConc ==
    \/ \E i \in Invocations : Resume(i)
    \/ \E i \in Invocations : Login(i)
    \/ \E i \in Invocations : GetZaehlpunkt(i)
    \/ \E i \in Invocations : FetchPlain(i)

SpecConc == InitConc /\ [][NextConc]_vars

\* the one invocation with short windows, under a scheduler that resumes a
\* suspended coroutine once the call it awaits has answered
NextLoop ==
    \/ Resume(1)
    \/ Login(1)
    \/ GetZaehlpunkt(1)
    \/ FetchShort(1)

SpecLoop == InitRun /\ [][NextLoop]_vars /\ WF_vars(NextLoop)

\* two invocations one after the other, the second possibly at a later
\* clock, with short windows
InitTwice ==
    /\ store = <<StatisticData(0, 2 * DecimalScale, DecimalScale \div 2)>>
    /\ now = InitNow + Second
    /\ available = TRUE
    /\ attrs = 0
    /\ updatets = NoInstant
    /\ started = MaxRuns - 2
    /\ run = [i \in Invocations |-> IdleRun]
    /\ fold = NoFold
    /\ meter = NoMeter

NextTwice ==
    \/ (started = MaxRuns - 1 /\ Advance)
    \/ (started = MaxRuns - 2 /\ Resume(1))
    \/ (started = MaxRuns - 1 /\ run[1].pc = "idle" /\ Resume(2))
    \/ \E i \in Invocations : Login(i)
    \/ \E i \in Invocations : GetZaehlpunkt(i)
    \/ \E i \in Invocations : FetchShort(i)

SpecTwice == InitTwice /\ [][NextTwice]_vars

(* ------------------------------ properties ----------------------------- *)
Range(f) == {f[k] : k \in DOMAIN f}
Last(q) == q[Len(q)]
StrictlyIncreasing(points) ==
    \A k \in 2..Len(points) : points[k - 1].start < points[k].start
SkipClasses == {"Gated", "Empty"}

\* the points invocation i has imported
CommittedPoints(i) == SubSeq(store, run[i].base + 1, Len(store))
\* the store as invocation i found it
StoreBefore(i) == SubSeq(store, 1, run[i].base)
\* the last point of the store as invocation i found it
Checkpoint(i) == StoreBefore(i)[LastIndex(StoreBefore(i), 1, 0)]
\* nothing of the Reading Source was called and nothing was imported
Untouched(i) ==
    /\ ~ run[i].contacted
    /\ ~ run[i].lookedUp
    /\ run[i].fetched = <<>>
    /\ run[i].commits = 0
    /\ Len(store) = run[i].base

\* C1: a run that fetched a window without readings container, or that met a
\* reading with non-zero minutes in a window it processed, imports nothing:
\* the store is as the run found it, whatever the run had collected
C1_FailClosed ==
    \A i \in Invocations :
        ("Malformed" \in Range(run[i].classes) \/ run[i].minuteSeen)
        => /\ run[i].commits = 0
           /\ Len(store) = run[i].base
           /\ run[i].pc = "idle"
\* C1 witness: the second window is malformed after the first gave points
C1_Witness ==
    /\ run[1].classes = <<"Usable", "Malformed">>
    /\ Len(run[1].statistics) > 0
    /\ run[1].pc = "idle"
\* the same for a reading with non-zero minutes in the second window
C1_WitnessMinute ==
    /\ run[1].classes = <<"Usable", "Usable">>
    /\ run[1].minuteSeen
    /\ Len(run[1].statistics) > 0
    /\ run[1].pc = "idle"

\* C2: the points a run imports have strictly increasing timestamps
C2_RunStrictlyIncreasing ==
    \A i \in Invocations :
        run[i].outcome = "imported" => StrictlyIncreasing(CommittedPoints(i))

\* C3: all imported points, over all runs, have strictly increasing
\* timestamps, and every point of a run lies after the last point the run
\* found in the store
C3_SeriesStrictlyIncreasing ==
    /\ StrictlyIncreasing(store)
    /\ \A i \in Invocations :
         (run[i].outcome = "imported" /\ run[i].base > 0)
         => \A k \in 1..Len(CommittedPoints(i)) :
              CommittedPoints(i)[k].start > Checkpoint(i).start
\* the second half of C3 alone
C3_AfterCheckpoint ==
    \A i \in Invocations :
        (run[i].outcome = "imported" /\ run[i].base > 0)
        => \A k \in 1..Len(CommittedPoints(i)) :
             CommittedPoints(i)[k].start > Checkpoint(i).start

\* C4: in the points a run imports, the first sum is the sum of the
\* checkpoint plus the first state, and each later sum is the sum before it
\* plus its state
C4_SumRecurrence ==
    \A i \in Invocations :
        (run[i].outcome = "imported" /\ run[i].base > 0)
        => LET pts == CommittedPoints(i) IN
           \A k \in 1..Len(pts) :
               pts[k].sum = (IF k = 1 THEN Checkpoint(i).sum ELSE pts[k - 1].sum)
                            + pts[k].state
\* C4 witness: points of the first and of the third window are imported, a
\* skipped window between them, and a reading of the run gave no point
C4_Witness ==
    /\ run[1].outcome = "imported"
    /\ Len(run[1].classes) = 3
    /\ run[1].classes[2] \in SkipClasses
    /\ run[1].held = MaxReadings
    /\ \E a, b \in 1..Len(CommittedPoints(1)) :
         /\ a < b
         /\ CommittedPoints(1)[a].start < run[1].fetched[2]
         /\ CommittedPoints(1)[b].start >= run[1].fetched[3]
         /\ Len(CommittedPoints(1)) < 2 * MaxReadings

\* C5: in the points a run imports no state is negative and the sum never
\* decreases
C5_NonDecreasingSum ==
    \A i \in Invocations :
        run[i].outcome = "imported"
        => LET pts == CommittedPoints(i) IN
           /\ \A k \in 1..Len(pts) : pts[k].state >= 0
           /\ \A k \in 2..Len(pts) : pts[k - 1].sum <= pts[k].sum

\* C6: every imported point has zero minutes, zero seconds and no
\* fraction of a second
C6_HourAligned ==
    \A k \in 1..Len(store) : store[k].start % Hour = 0

\* C7 as claimed: with one last point whose end is at most 24 hours before
\* the clock of the invocation, nothing of the Reading Source is called and
\* nothing is imported; with an older one the run goes on to the login
C7_GateExact ==
    \A i \in Invocations :
        (run[i].shape = "one" /\ run[i].outcome # "badtype")
        => LET end == Checkpoint(i).start + Hour IN
           IF run[i].gateNow - end <= 24 * Hour
           THEN Untouched(i) /\ run[i].pc = "idle"
           ELSE run[i].pc # "idle" \/ run[i].contacted
\* C7 as amended: the same with the difference taken between the clock and
\* the end of the last point both cut to whole seconds
C7_Gate ==
    \A i \in Invocations :
        (run[i].shape = "one" /\ run[i].outcome # "badtype")
        => LET end == Checkpoint(i).start + Hour
               cut(t) == t - (t % TicksPerSecond)
           IN  IF cut(run[i].gateNow) - cut(end) <= 24 * Hour
               THEN Untouched(i) /\ run[i].pc = "idle"
               ELSE run[i].pc # "idle" \/ run[i].contacted
\* C7 witness: gated with the last point a fraction of a second more than
\* 24 hours old
C7_Witness ==
    /\ run[1].shape = "one"
    /\ run[1].gateNow - (Checkpoint(1).start + Hour) > 24 * Hour
    /\ run[1].gateNow - (Checkpoint(1).start + Hour) < 24 * Hour + Second
    /\ run[1].outcome = "gated"
    /\ Untouched(1)
\* gated with the last point exactly 24 hours old
C7_WitnessGate ==
    /\ run[1].shape = "one"
    /\ run[1].gateNow - (Checkpoint(1).start + Hour) = 24 * Hour
    /\ run[1].outcome = "gated"
    /\ Untouched(1)
\* the run that goes on, with the last point 24 hours and a second old
C7_WitnessProceed ==
    /\ run[1].shape = "one"
    /\ run[1].gateNow - (Checkpoint(1).start + Hour) = 24 * Hour + Second
    /\ run[1].fetched # <<>>

\* C8: without a prior point the run resumes from the start of the day of
\* the clock minus 48 hours with sum 0, and fetches from there
C8_ColdStart ==
    \A i \in Invocations :
        run[i].shape = "none"
        => /\ run[i].ckEnd = (run[i].gateNow - (run[i].gateNow % (24 * Hour)))
                             - 48 * Hour
           /\ run[i].carried = 0
           /\ run[i].pc # "idle" \/ run[i].fetched # <<>>
           /\ run[i].fetched # <<>> => run[i].fetched[1] = run[i].ckEnd

\* C9: a fetch of a window without opt-in or without consumption leaves the
\* collected points and the sum as they were and moves the start on by 24
\* hours, and the fetch after it asks for that start
C9_SkippedWindow ==
    [][\A i \in Invocations :
         Len(run'[i].classes) = Len(run[i].classes) + 1
         => /\ Last(run'[i].classes) \in SkipClasses
               => /\ run'[i].statistics = run[i].statistics
                  /\ run'[i].sum = run[i].sum
                  /\ run'[i].start = run[i].start + 24 * Hour
                  /\ Last(run'[i].fetched) = run[i].start
            /\ (run[i].classes # <<>> /\ Last(run[i].classes) \in SkipClasses)
               => Last(run'[i].fetched) = Last(run[i].fetched) + 24 * Hour]_vars
\* C9 witness: a skipped window that held a reading, after a window that
\* gave points, and a fetch after it
C9_Witness ==
    /\ Len(run[1].classes) = 2
    /\ run[1].classes[1] = "Usable"
    /\ run[1].classes[2] \in SkipClasses
    /\ run[1].held > 0
    /\ Len(run[1].statistics) > 0
    /\ run[1].pc = "import"

(* ------------------------- the fold on its own ------------------------- *)
\* the start the folded window was requested at
FoldStart == 2 * Hour
FoldTimes ==
    {FoldStart - Hour, FoldStart, FoldStart + Hour, FoldStart + 2 * Hour,
     FoldStart + Hour + 7 * Minute}
FoldReadings ==
    [timestamp : {FormatDatetime(t) : t \in FoldTimes},
     value : {None, Some(500), Some(1500)}]

InitFold ==
    /\ store = <<>>
    /\ now = InitNow
    /\ available = TRUE
    /\ attrs = 0
    /\ updatets = NoInstant
    /\ started = 0
    /\ run = [i \in Invocations |-> IdleRun]
    /\ meter = NoMeter
    /\ \E values \in SeqsUpTo(FoldReadings, MaxFoldLen), s \in {0, 2 * DecimalScale} :
         fold = [values |-> values, pos |-> 1, sum0 |-> s,
                 acc |-> [last_ts |-> FoldStart, sum |-> s,
                          statistics |-> <<>>, returned |-> FALSE]]

\* one pass of the loop over the readings
FoldStep ==
    /\ fold.pos <= Len(fold.values)
    /\ ~ fold.acc.returned
    /\ fold' = [fold EXCEPT !.pos = @ + 1,
                            !.acc = ReadingStep(@, fold.values[fold.pos])]
    /\ UNCHANGED <<store, now, available, attrs, updatets, started, run, meter>>

NextFold == FoldStep

SpecFold == InitFold /\ [][NextFold]_vars

\* the reading the next pass of the loop handles
FoldReading == fold.values[fold.pos]
FoldTs ==
    FoldReading.timestamp[1] * Hour + FoldReading.timestamp[2] * Minute
    + FoldReading.timestamp[3] * Second + FoldReading.timestamp[4]
\* that reading is neither misaligned nor out of order
FoldAccepted == FoldReading.timestamp[2] = 0 /\ FoldTs >= fold.acc.last_ts

\* hourly readings from the requested start on, the first n of raw value
\* 500 and the others without value
FoldScenarioB(n) ==
    \A k \in 1..Len(fold.values) :
        /\ fold.values[k].timestamp = <<(FoldStart \div Hour) + k - 1, 0, 0, 0>>
        /\ fold.values[k].value = IF k <= n THEN <<500>> ELSE <<>>

\* C10: an accepted reading without value adds no point and leaves the sum,
\* and moves lastSeen to its timestamp; an accepted reading with a value adds
\* one point whose state is the value / 1000 and whose sum is the sum so far
\* plus that state.  Readings of raw value 500 followed only by readings
\* without value give one point per valued reading and a sum of 0.5 each.
C10_AbsentValue ==
    /\ [][(fold'.pos = fold.pos + 1 /\ FoldAccepted)
          => IF FoldReading.value = <<>>
             THEN /\ fold'.acc.statistics = fold.acc.statistics
                  /\ fold'.acc.sum = fold.acc.sum
                  /\ fold'.acc.last_ts = FoldTs
             ELSE /\ Len(fold'.acc.statistics) = Len(fold.acc.statistics) + 1
                  /\ Last(fold'.acc.statistics).state * 1000
                       = FoldReading.value[1] * DecimalScale
                  /\ Last(fold'.acc.statistics).sum
                       = fold.acc.sum + Last(fold'.acc.statistics).state
                  /\ Last(fold'.acc.statistics).start = FoldTs
                  /\ fold'.acc.sum = Last(fold'.acc.statistics).sum]_vars
    /\ [](\A n \in 0..Len(fold.values) :
            (fold.pos > Len(fold.values) /\ FoldScenarioB(n))
            => /\ Len(fold.acc.statistics) = n
               /\ 2 * (fold.acc.sum - fold.sum0) = n * DecimalScale)
\* C10 witness: two readings of 500 and then one without value are folded
C10_Witness ==
    /\ fold.pos = 4
    /\ fold.values[1].value = <<500>>
    /\ fold.values[2].value = <<500>>
    /\ fold.values[3].value = <<>>
    /\ fold.values[3].timestamp = <<(FoldStart \div Hour) + 2, 0, 0, 0>>
    /\ Len(fold.acc.statistics) = 2
    /\ fold.acc.last_ts = FoldStart + 2 * Hour

\* the reading the next pass handles has zero minutes and a timestamp
\* before lastSeen
FoldOutOfOrder == FoldReading.timestamp[2] = 0 /\ FoldTs < fold.acc.last_ts

\* C11: a reading that passed the minute test and whose timestamp is strictly
\* less than lastSeen (the requested start or the timestamp of the last
\* accepted reading) gives no point, leaves sum and lastSeen as they were and
\* does not end the loop: the next reading is handled
C11_OutOfOrderDrop ==
    [][(fold'.pos = fold.pos + 1 /\ FoldOutOfOrder)
       => /\ fold'.acc.statistics = fold.acc.statistics
          /\ fold'.acc.sum = fold.acc.sum
          /\ fold'.acc.last_ts = fold.acc.last_ts
          /\ ~ fold'.acc.returned]_vars
\* C11 witness: a reading one hour before the last accepted one was passed
\* over, with a value, and the reading after it gave a point
C11_Witness ==
    /\ fold.pos = 4
    /\ fold.values[1] = [timestamp |-> FormatDatetime(FoldStart + 2 * Hour),
                         value |-> <<500>>]
    /\ fold.values[2] = [timestamp |-> FormatDatetime(FoldStart + Hour),
                         value |-> <<500>>]
    /\ fold.values[3].value = <<1500>>
    /\ Len(fold.acc.statistics) = 2
    /\ fold.acc.sum = fold.sum0 + Usage(500) + Usage(1500)
    /\ fold.acc.last_ts = FoldStart + 2 * Hour

\* C12: after an invocation in which the login, the meter-status lookup or
\* the fetch of a window failed nothing was imported, the availability flag
\* is false, and the update time and the attributes of the entity are as the
\* invocation found them
C12_UpstreamError ==
    \A i \in Invocations :
        run[i].outcome = "RuntimeError"
        => /\ run[i].pc = "idle"
           /\ run[i].commits = 0
           /\ Len(store) = run[i].base
           /\ available = FALSE
           /\ updatets = run[i].updatets0
           /\ attrs = run[i].attrs0
\* the same without the attributes of the entity
C12_UpstreamAbort ==
    \A i \in Invocations :
        run[i].outcome = "RuntimeError"
        => /\ run[i].pc = "idle"
           /\ run[i].commits = 0
           /\ Len(store) = run[i].base
           /\ available = FALSE
           /\ updatets = run[i].updatets0
\* the attributes differ after a failure only when the lookup had answered
C12_AttrsAfterLookup ==
    \A i \in Invocations :
        (run[i].outcome = "RuntimeError" /\ attrs # run[i].attrs0)
        => run[i].fetched # <<>>
\* the failures the claim names are reached: of the login, of the lookup,
\* and of the fetch of the second window after the first gave points
C12_WitnessLogin ==
    /\ run[1].outcome = "RuntimeError"
    /\ run[1].contacted /\ ~ run[1].lookedUp
C12_WitnessLookup ==
    /\ run[1].outcome = "RuntimeError"
    /\ run[1].lookedUp /\ run[1].fetched = <<>>
C12_WitnessFetch ==
    /\ run[1].outcome = "RuntimeError"
    /\ run[1].classes = <<"Usable", "Exception">>
    /\ Len(run[1].statistics) > 0

\* C13: after a run that ended at a window without readings container or at
\* a reading with non-zero minutes, nothing was imported and the
\* availability flag is false
C13_AbortUnavailable ==
    \A i \in Invocations :
        run[i].outcome \in {"novalues", "minute"}
        => /\ run[i].commits = 0
           /\ Len(store) = run[i].base
           /\ available = FALSE
\* what the code does instead: the flag stays true and the update time is set
C13_AbortStaysAvailable ==
    \A i \in Invocations :
        run[i].outcome \in {"novalues", "minute"}
        => /\ run[i].commits = 0
           /\ Len(store) = run[i].base
           /\ available = TRUE
           /\ updatets = run[i].gateNow

\* C14: when is_active answers false on the meter's entry, the availability
\* flag is false, no window is fetched and nothing is imported
C14_InactiveMeter ==
    \A i \in Invocations :
        ~ run[i].active
        => /\ run[i].pc = "idle"
           /\ available = FALSE
           /\ run[i].fetched = <<>>
           /\ run[i].commits = 0
           /\ Len(store) = run[i].base
\* C14 witness: the lookup answered an entry that is_active judged inactive
C14_Witness ==
    /\ run[1].lookedUp
    /\ ~ run[1].active
    /\ run[1].outcome = "inactive"
    /\ attrs = started

\* each sum is the sum before it plus the state
SumRecurrence(points) ==
    \A k \in 2..Len(points) : points[k].sum = points[k - 1].sum + points[k].state

\* C15: when an invocation resumes while another, resumed before it, has not
\* finished, both resume from the same last point and sum; and when both
\* then import the same points, the timestamps of the store no longer
\* strictly increase, and its sums no longer follow the recurrence when the
\* points add up to a usage that is not zero
C15_ConcurrentRuns ==
    \A i, j \in Invocations :
        (/\ i # j
         /\ run[j].overlapped
         /\ run[i].shape = "one" /\ run[i].outcome # "badtype"
         /\ run[j].shape = "one" /\ run[j].outcome # "badtype")
        => /\ run[i].base = run[j].base
           /\ run[i].ckEnd = run[j].ckEnd
           /\ run[i].carried = run[j].carried
           /\ (/\ run[i].outcome = "imported"
               /\ run[j].outcome = "imported"
               /\ run[i].statistics = run[j].statistics
               /\ run[i].statistics # <<>>)
              => /\ ~ StrictlyIncreasing(store)
                 /\ Last(run[i].statistics).sum # run[i].carried
                    => ~ SumRecurrence(store)
\* C15 witness: two overlapping invocations have both imported the same
\* points, and the store holds them twice
C15_Witness ==
    /\ run[2].overlapped
    /\ run[1].outcome = "imported"
    /\ run[2].outcome = "imported"
    /\ run[1].statistics = run[2].statistics
    /\ Len(run[1].statistics) > 1
    /\ Len(store) = run[1].base + 2 * Len(run[1].statistics)
    /\ ~ SumRecurrence(store)

\* C16: an invocation writes to the store at most once, and not while
\* windows are left to fetch; a run whose loop ended without an early return
\* and without a failure imports once, all the points it collected (also
\* when there are none); an invocation that ended any other way imports
\* nothing
C16_CommitOnce ==
    /\ [](\A i \in Invocations :
            /\ run[i].commits <= 1
            /\ run[i].pc # "idle"
               => run[i].commits = 0 /\ Len(store) = run[i].base
            /\ run[i].outcome = "imported"
               => /\ run[i].commits = 1
                  /\ CommittedPoints(i) = run[i].statistics
                  /\ run[i].start >= run[i].until
                  /\ Range(run[i].classes) \subseteq {"Usable", "Gated", "Empty"}
                  /\ ~ run[i].minuteSeen
            /\ run[i].outcome \notin {"imported", "none"}
               => run[i].commits = 0 /\ Len(store) = run[i].base)
    /\ [][store' # store
          => \E i \in Invocations :
               /\ run[i].pc = "import"
               /\ run'[i].outcome = "imported"
               /\ run'[i].start >= run'[i].until
               /\ store' = store \o run'[i].statistics]_vars
\* C16 witness: a run over more than one window imported once, with points
\* of more than one window
C16_Witness ==
    /\ run[1].outcome = "imported"
    /\ run[1].commits = 1
    /\ Len(run[1].fetched) > 1
    /\ \E a, b \in 1..Len(CommittedPoints(1)) :
         /\ CommittedPoints(1)[a].start < run[1].fetched[2]
         /\ CommittedPoints(1)[b].start >= run[1].fetched[2]
\* a run that collected nothing imported once
C16_WitnessEmpty ==
    /\ run[1].outcome = "imported"
    /\ run[1].commits = 1
    /\ run[1].statistics = <<>>
    /\ Len(run[1].fetched) > 1

\* C17: every run ends; its k-th fetch asks for the hour-truncated start
\* plus (k - 1) * 24 hours, an instant before the hour-truncated clock,
\* whatever the windows before held; there are at most
\* ceil((now - start) / 24h) fetches, exactly that many in a run that ends
\* with the import, and no instant is asked for twice
C17_Termination ==
    /\ [](\A i \in Invocations :
            LET f == run[i].fetched
                s0 == run[i].ckEnd - (run[i].ckEnd % Hour)
                u == run[i].gateNow - (run[i].gateNow % Hour)
                ceil == (u - s0 + 24 * Hour - 1) \div (24 * Hour)
            IN  /\ \A k \in 1..Len(f) :
                     f[k] = s0 + (k - 1) * 24 * Hour /\ f[k] < u
                /\ \A a, b \in 1..Len(f) : a # b => f[a] # f[b]
                /\ f # <<>> => Len(f) <= ceil
                /\ run[i].outcome = "imported" => Len(f) = ceil)
    /\ \A i \in Invocations : (run[i].pc # "idle") ~> (run[i].pc = "idle")
\* C17 witness: a run ended after windows without opt-in, without
\* consumption and with readings, one fetch for each
C17_Witness ==
    /\ run[1].pc = "idle"
    /\ Len(run[1].fetched) = 3
    /\ Range(run[1].classes) = {"Gated", "Empty", "Usable"}
    /\ run[1].fetched[3] = run[1].fetched[1] + 48 * Hour

\* C18: when get_last_statistics answers neither nothing nor one row of one
\* sensor, the invocation ends without login, lookup or fetch and imports
\* nothing
C18_OtherShape ==
    \A i \in Invocations :
        LET ids == run[i].answer[1]
            rows == run[i].answer[2]
        IN  (~ (ids = 0 \/ rows = 0) /\ ~ (ids = 1 /\ rows = 1))
            => Untouched(i) /\ run[i].pc = "idle"
\* C18 witness: the answer held a second entry, with a last point old
\* enough for a run
C18_Witness ==
    /\ run[1].answer = <<2, 1>>
    /\ run[1].shape = "other"
    /\ run[1].gateNow - (Checkpoint(1).start + Hour) > 24 * Hour
    /\ Untouched(1)
\* the answer held two rows
C18_WitnessRows ==
    /\ run[1].answer = <<1, 2>>
    /\ run[1].shape = "other"
    /\ Untouched(1)

(* ----------------------- is_active on its own -------------------------- *)
\* the entries of the meter the lookups of successive invocations answer
MeterEntries == {z \in ZaehlpunktResponses : z.kind = "found"}

InitMeter ==
    /\ store = <<>>
    /\ now = InitNow
    /\ available = TRUE
    /\ attrs = 0
    /\ updatets = NoInstant
    /\ started = 0
    /\ run = [i \in Invocations |-> IdleRun]
    /\ fold = NoFold
    /\ \E zps \in SeqsUpTo(MeterEntries, MaxRuns) \ {<<>>} :
         meter = [zps |-> zps, pos |-> 1, judged |-> <<>>]

\* is_active on the next entry, translated as get_zaehlpunkt returns it
JudgeStep ==
    /\ meter.pos <= Len(meter.zps)
    /\ meter' = [meter EXCEPT
                   !.pos = @ + 1,
                   !.judged = Append(@, is_active(TranslateDict(
                                  meter.zps[meter.pos], ZaehlpunktKeys)))]
    /\ UNCHANGED <<store, now, available, attrs, updatets, started, run, fold>>

NextMeter == JudgeStep

SpecMeter == InitMeter /\ [][NextMeter]_vars

\* C19: is_active is false exactly on an entry that holds active = false
\* and smartMeterReady = false; with either field missing or true it is true
C19_IsActive ==
    \A k \in 1..Len(meter.judged) :
        meter.judged[k] = ~ (/\ meter.zps[k].active = <<FALSE>>
                             /\ meter.zps[k].smartMeterReady = <<FALSE>>)
\* C19 witness: an entry with both fields false was judged inactive, and
\* one with active = false and smartMeterReady missing was judged active
C19_Witness ==
    /\ Len(meter.judged) = 2
    /\ meter.zps[1].active = <<FALSE>> /\ meter.zps[1].smartMeterReady = <<FALSE>>
    /\ meter.zps[2].active = <<FALSE>> /\ meter.zps[2].smartMeterReady = <<>>
    /\ meter.judged = <<FALSE, TRUE>>

\* C20: a run whose windows were all without opt-in or without consumption
\* collects no point; and after a run that imported no point the store is
\* as the run found it, so the invocation after it resumes from the same
\* end and sum, is not held back by the gate, asks for the same windows
\* again, in the same order, and for the later ones the clock allows
C20_NoProgress ==
    LET a == run[1]
        b == run[2]
    IN  /\ (a.outcome = "imported" /\ Range(a.classes) \subseteq SkipClasses)
           => a.statistics = <<>>
        /\ (a.outcome = "imported" /\ a.statistics = <<>>)
           => /\ b.outcome = "none" => Len(store) = a.base
              /\ b.outcome # "none" => b.base = a.base
              /\ (b.shape = "one" /\ b.outcome # "badtype")
                 => /\ b.ckEnd = a.ckEnd
                    /\ b.carried = a.carried
                    /\ b.outcome # "gated"
                    /\ \A k \in 1..Len(b.fetched) :
                         k <= Len(a.fetched) => b.fetched[k] = a.fetched[k]
                    /\ b.outcome = "imported"
                       => Len(b.fetched) >= Len(a.fetched)
\* C20 witness: after a run over a window without opt-in that held a
\* reading, the next invocation, a day later, fetched that window again and
\* the one after it
C20_Witness ==
    /\ run[1].outcome = "imported"
    /\ run[1].classes = <<"Gated">>
    /\ run[1].held > 0
    /\ run[1].statistics = <<>>
    /\ run[2].outcome = "imported"
    /\ Len(run[2].fetched) = 2
    /\ run[2].fetched[1] = run[1].fetched[1]
    /\ run[2].gateNow > run[1].gateNow
\* the same after a window whose only reading had no value
C20_WitnessAbsent ==
    /\ run[1].outcome = "imported"
    /\ run[1].classes = <<"Usable">>
    /\ run[1].held > 0
    /\ run[1].statistics = <<>>
    /\ run[2].outcome = "imported"
    /\ run[2].fetched[1] = run[1].fetched[1]
    /\ Len(run[2].statistics) > 0

====
